---------------------------- MODULE Spec2Model ----------------------------
(***************************************************************************)
(* Model of streamlit_app.py: the thesis-abstract recommendation pipeline. *)
(*                                                                         *)
(*   calculate_similarity  (the corpus scan, TF-IDF cosine per field)      *)
(*   process_author_ids    (explode the id field, merge with the roster,   *)
(*                          sort by score)                                 *)
(*   main                  (the Streamlit script run: text area, button,   *)
(*                          session state, metrics and top-20 view)        *)
(*                                                                         *)
(* Floating-point scores are fixed-point integers in units of 10^-5, so    *)
(* 0.93456 is 93456 and 1.0 is ScoreOne.  A float that may be NaN is a     *)
(* record [nan, v].  A pandas cell that may be missing is a record         *)
(* [na, s]; a text is a sequence of words, an id cell a sequence of        *)
(* one-character strings.                                                  *)
(***************************************************************************)
EXTENDS Integers, Sequences, FiniteSets, TLC

VARIABLES
    pc,                 \* position of the script run
    target_abstract,    \* the text area's content (a sequence of words)
    disk,               \* scopus.csv and futa_authors.csv as load_data finds them
    scopus_data,        \* the corpus frame of the running scan
    futa_authors,       \* the roster frame
    i,                  \* calculate_similarity: records processed so far
    results,            \* calculate_similarity: the list of rows built so far
    similarity_results, \* the frame calculate_similarity returned
    row,                \* process_author_ids: rows of results_df iterated so far
    author_scores,      \* process_author_ids: the list of [Auth-ID, Score]
    session_state,      \* st.session_state: recommendations, processed_data
    metrics,            \* the four st.metric values of the last display
    top_20              \* the frame shown in the recommendations tab

vars == <<pc, target_abstract, disk, scopus_data, futa_authors, i, results,
          similarity_results, row, author_scores, session_state, metrics, top_20>>

-----------------------------------------------------------------------------
(* Bounds of the model *)

MaxCorpus == 2

MaxRows == 2

MaxRecs == 21

-----------------------------------------------------------------------------
(* Values *)

\* 1.0 in score units (10^-5).
ScoreOne == 10^5

\* np.nan as a score, and a numeric score.
NaN == [nan |-> TRUE, v |-> 0]

Num(x) == [nan |-> FALSE, v |-> x]

\* A missing cell (float nan in an object column) and a string cell.
NA == [na |-> TRUE, s |-> <<>>]

Str(s) == [na |-> FALSE, s |-> s]

\* pd.notna on a cell.
notna(cell) == ~cell.na

\* None, and a value that is not None.
None == [none |-> TRUE, rows |-> <<>>]

Frame(rows) == [none |-> FALSE, rows |-> rows]

RECURSIVE SqrtSearch(_, _, _)
SqrtSearch(n, lo, hi) ==
    IF lo >= hi THEN lo
    ELSE LET mid == (lo + hi + 1) \div 2
         IN  IF mid * mid <= n THEN SqrtSearch(n, mid, hi)
             ELSE SqrtSearch(n, lo, mid - 1)

\* floor of the square root.
ISqrt(n) == SqrtSearch(n, 0, 46340)

RECURSIVE SumSeq(_)
SumSeq(s) == IF s = <<>> THEN 0 ELSE Head(s) + SumSeq(Tail(s))

RECURSIVE SumOver(_, _)
SumOver(S, f) ==
    IF S = {} THEN 0
    ELSE LET x == CHOOSE y \in S : TRUE IN f[x] + SumOver(S \ {x}, f)

-----------------------------------------------------------------------------
(* TfidfVectorizer(stop_words='english', max_features=5000) and            *)
(* cosine_similarity                                                       *)

\* The words of the 'english' stop list that the model's texts use.
StopWords == {"the", "of"}

max_features == 5000

\* lowercase=True of the vectorizer's preprocessor.
Lower(w) == IF w = "Deep" THEN "deep" ELSE IF w = "The" THEN "the" ELSE w

RECURSIVE Analyze(_)
\* build_analyzer: lowercase, tokenize, drop the stop words.
Analyze(words) ==
    IF words = <<>> THEN <<>>
    ELSE LET w == Lower(Head(words))
         IN  IF w \in StopWords THEN Analyze(Tail(words))
             ELSE <<w>> \o Analyze(Tail(words))

\* Term frequency of term t in a token sequence.
Tf(toks, t) == Cardinality({k \in DOMAIN toks : toks[k] = t})

\* _limit_features: the max_features terms of highest total count.
LimitFeatures(vocab, toks1, toks2) ==
    IF Cardinality(vocab) <= max_features THEN vocab
    ELSE CHOOSE S \in SUBSET vocab :
            /\ Cardinality(S) = max_features
            /\ \A t \in S : \A u \in vocab \ S :
                  Tf(toks1, t) + Tf(toks2, t) >= Tf(toks1, u) + Tf(toks2, u)

\* idf(t)^2 in thousandths for the two-document corpus, smooth_idf=True:
\* idf = ln((1 + 2) / (1 + df)) + 1, which is 1 for df = 2 and
\* 1.405465 for df = 1 (squared: 1.975332).
IdfSq(df) == IF df >= 2 THEN 1000 ELSE 1975

\* A new, unfitted TfidfVectorizer.
NewVectorizer == [fitted |-> FALSE, vocabulary_ |-> {}]

\* The term-document matrix of two token sequences over a vocabulary:
\* term counts and squared idf per term.
Matrix(vocab, toks1, toks2) ==
    [tf1   |-> [t \in vocab |-> Tf(toks1, t)],
     tf2   |-> [t \in vocab |-> Tf(toks2, t)],
     idfsq |-> [t \in vocab |->
                  IdfSq((IF Tf(toks1, t) > 0 THEN 1 ELSE 0)
                        + (IF Tf(toks2, t) > 0 THEN 1 ELSE 0))]]

EmptyMatrix == Matrix({}, <<>>, <<>>)

\* A plausible slip: transform() on an already fitted vectorizer, which keeps
\* the vocabulary of the previous fit instead of learning this pair's.
transform_stale(vectorizer, doc1, doc2) ==
    IF doc1.na \/ doc2.na
    THEN [raised |-> TRUE, vectorizer |-> vectorizer, X |-> EmptyMatrix]
    ELSE LET toks1 == Analyze(doc1.s)
             toks2 == Analyze(doc2.s)
             own   == {toks1[k] : k \in DOMAIN toks1} \cup {toks2[k] : k \in DOMAIN toks2}
             vocab == IF vectorizer.fitted THEN vectorizer.vocabulary_ ELSE own
         IN  IF vocab = {}
             THEN [raised |-> TRUE, vectorizer |-> vectorizer, X |-> EmptyMatrix]
             ELSE [raised |-> FALSE,
                   vectorizer |-> [fitted |-> TRUE, vocabulary_ |-> vocab],
                   X |-> Matrix(vocab, toks1, toks2)]

\* vectorizer.fit_transform([doc1, doc2]).  Raises on a document that is not
\* a string (np.nan) and on an empty vocabulary; a raise leaves the
\* vectorizer as it was.  Otherwise the vocabulary is learnt from this pair.
fit_transform(vectorizer, doc1, doc2) ==
    IF doc1.na \/ doc2.na
    THEN [raised |-> TRUE, vectorizer |-> vectorizer, X |-> EmptyMatrix]
    ELSE LET toks1 == Analyze(doc1.s)
             toks2 == Analyze(doc2.s)
             terms == {toks1[k] : k \in DOMAIN toks1} \cup {toks2[k] : k \in DOMAIN toks2}
             vocab == LimitFeatures(terms, toks1, toks2)
         IN  IF vocab = {}
             THEN [raised |-> TRUE, vectorizer |-> vectorizer, X |-> EmptyMatrix]
             ELSE [raised |-> FALSE,
                   vectorizer |-> [fitted |-> TRUE, vocabulary_ |-> vocab],
                   X |-> Matrix(vocab, toks1, toks2)]

\* cosine_similarity(X)[0][1]: the dot product of the two L2-normalised rows;
\* a zero row stays zero, so the similarity is 0.  Integer arithmetic: the
\* square root is floored, which is exact when the two rows are parallel and
\* otherwise within about 0.0002 of the real value.
cosine_similarity(X) ==
    LET V   == DOMAIN X.idfsq
        dot == SumOver(V, [t \in V |-> X.tf1[t] * X.tf2[t] * X.idfsq[t]])
        n1  == SumOver(V, [t \in V |-> X.tf1[t] * X.tf1[t] * X.idfsq[t]])
        n2  == SumOver(V, [t \in V |-> X.tf2[t] * X.tf2[t] * X.idfsq[t]])
    IN  IF n1 = 0 \/ n2 = 0 THEN Num(0)
        ELSE Num((dot * ScoreOne) \div ISqrt(n1 * n2))

-----------------------------------------------------------------------------
(* calculate_similarity *)

\* Lines 93-98: the abstract's score, 0 when anything raises.
AbstractScore(vectorizer, rec, target) ==
    LET r == fit_transform(vectorizer, rec.Abstract, Str(target))
    IN  [vectorizer |-> r.vectorizer,
         score |-> IF r.raised THEN Num(0) ELSE cosine_similarity(r.X)]

\* Lines 100-118: a keyword field's score, nan when the cell is missing or
\* anything raises.
KeywordScore(vectorizer, cell, target) ==
    IF notna(cell)
    THEN LET r == fit_transform(vectorizer, cell, Str(target))
         IN  [vectorizer |-> r.vectorizer,
              score |-> IF r.raised THEN NaN ELSE cosine_similarity(r.X)]
    ELSE [vectorizer |-> vectorizer, score |-> NaN]

\* One iteration of the loop of lines 86-126: the row appended for rec.
ScoreRow(rec, target) ==
    LET abs == AbstractScore(NewVectorizer, rec, target)
        aut == KeywordScore(abs.vectorizer, rec.AuthorKeywords, target)
        ind == KeywordScore(aut.vectorizer, rec.IndexKeywords, target)
    IN  [Authors      |-> rec.Authors,
         IDs          |-> rec.IDs,
         Score_Abs    |-> abs.score,
         Score_Author |-> aut.score,
         Score_Index  |-> ind.score]

\* A plausible slip: a record whose abstract cannot be scored is skipped.
AppendRowSkipping(rs, rec, target) ==
    IF fit_transform(NewVectorizer, rec.Abstract, Str(target)).raised THEN rs
    ELSE Append(rs, ScoreRow(rec, target))

\* results.append([...]) of lines 120-126.
AppendRow(rs, rec, target) == Append(rs, ScoreRow(rec, target))

\* The loop body for record i (0-based), lines 86-126.
ScanRecord ==
    /\ pc = "scan"
    /\ i < Len(scopus_data)
    /\ results' = AppendRow(results, scopus_data[i + 1], target_abstract)
    /\ i' = i + 1
    /\ UNCHANGED <<pc, target_abstract, disk, scopus_data, futa_authors,
                   similarity_results, row, author_scores, session_state,
                   metrics, top_20>>

\* Lines 128-131 and the assignment of line 297: the frame is returned and
\* process_author_ids starts on it.
ScanReturn ==
    /\ pc = "scan"
    /\ i = Len(scopus_data)
    /\ similarity_results' = Frame(results)
    /\ row' = 0
    /\ author_scores' = <<>>
    /\ pc' = "explode"
    /\ UNCHANGED <<target_abstract, disk, scopus_data, futa_authors, i, results,
                   session_state, metrics, top_20>>

-----------------------------------------------------------------------------
(* Strings of the 'Author(s) ID' cell: str.split, str.strip, float()       *)

Digits == {"0", "1", "2", "3", "4", "5", "6", "7", "8", "9"}

DigitVal(c) ==
    CASE c = "0" -> 0 [] c = "1" -> 1 [] c = "2" -> 2 [] c = "3" -> 3
      [] c = "4" -> 4 [] c = "5" -> 5 [] c = "6" -> 6 [] c = "7" -> 7
      [] c = "8" -> 8 [] c = "9" -> 9

Whitespace == {" ", "\t", "\n"}

\* str.lower on the letters float() looks at.
LowerChar(c) ==
    CASE c = "N" -> "n" [] c = "A" -> "a" [] c = "I" -> "i" [] c = "F" -> "f"
      [] c = "T" -> "t" [] c = "Y" -> "y" [] c = "E" -> "e" [] OTHER -> c

RECURSIVE split(_, _)
\* s.split(sep): the pieces between the separators; one more piece than
\* separators, so "".split(';') is [""].
split(s, sep) ==
    IF s = <<>> THEN << <<>> >>
    ELSE IF Head(s) = sep THEN << <<>> >> \o split(Tail(s), sep)
    ELSE LET rest == split(Tail(s), sep)
         IN  << <<Head(s)>> \o Head(rest) >> \o Tail(rest)

RECURSIVE lstrip(_)
lstrip(s) ==
    IF s # <<>> /\ Head(s) \in Whitespace THEN lstrip(Tail(s)) ELSE s

RECURSIVE rstrip(_)
rstrip(s) ==
    IF s # <<>> /\ s[Len(s)] \in Whitespace THEN rstrip(SubSeq(s, 1, Len(s) - 1))
    ELSE s

\* s.strip()
strip(s) == rstrip(lstrip(s))

\* A Python float: a finite decimal m * 10^e in normal form (m has no
\* trailing zero; zero is m = 0, e = 0), an infinity (m = 1 or -1) or nan.
FloatNaN == [kind |-> "nan", m |-> 0, e |-> 0]

FloatInf(sign) == [kind |-> "inf", m |-> sign, e |-> 0]

RECURSIVE Normal(_, _)
Normal(m, e) ==
    IF m = 0 THEN [kind |-> "num", m |-> 0, e |-> 0]
    ELSE IF m % 10 = 0 THEN Normal(m \div 10, e + 1)
    ELSE [kind |-> "num", m |-> m, e |-> e]

\* digitpart: digits, with single underscores allowed between digits.
IsDigitPart(s) ==
    /\ s # <<>>
    /\ \A k \in DOMAIN s : s[k] \in Digits \cup {"_"}
    /\ s[1] \in Digits /\ s[Len(s)] \in Digits
    /\ \A k \in 1 .. Len(s) - 1 : ~(s[k] = "_" /\ s[k + 1] = "_")

RECURSIVE DigitsValue(_, _)
\* The integer written by a digitpart, underscores skipped.
DigitsValue(s, acc) ==
    IF s = <<>> THEN acc
    ELSE IF Head(s) = "_" THEN DigitsValue(Tail(s), acc)
    ELSE DigitsValue(Tail(s), acc * 10 + DigitVal(Head(s)))

\* Number of digits of a digitpart (or of the empty string).
DigitCount(s) == Cardinality({k \in DOMAIN s : s[k] \in Digits})

\* Position of the first element of s in set C, or 0.
FirstIn(s, C) ==
    IF \E k \in DOMAIN s : s[k] \in C
    THEN CHOOSE k \in DOMAIN s : s[k] \in C /\ \A j \in 1 .. k - 1 : s[j] \notin C
    ELSE 0

\* An optional sign followed by the rest.
Signed(s) ==
    IF s # <<>> /\ Head(s) \in {"+", "-"}
    THEN [sign |-> IF Head(s) = "-" THEN -1 ELSE 1, body |-> Tail(s)]
    ELSE [sign |-> 1, body |-> s]

NotAFloat == [ok |-> FALSE, val |-> FloatNaN]

\* The decimal literal: digitpart [. [digitpart]] [exponent] or
\* . digitpart [exponent], exponent being e or E, an optional sign, digitpart.
ParseDecimal(sign, body) ==
    LET epos  == FirstIn(body, {"e", "E"})
        mant  == IF epos = 0 THEN body ELSE SubSeq(body, 1, epos - 1)
        expo  == IF epos = 0 THEN <<>> ELSE SubSeq(body, epos + 1, Len(body))
        dpos  == FirstIn(mant, {"."})
        ipart == IF dpos = 0 THEN mant ELSE SubSeq(mant, 1, dpos - 1)
        fpart == IF dpos = 0 THEN <<>> ELSE SubSeq(mant, dpos + 1, Len(mant))
        es    == Signed(expo)
        mantOk == /\ ipart # <<>> \/ fpart # <<>>
                  /\ ipart = <<>> \/ IsDigitPart(ipart)
                  /\ fpart = <<>> \/ IsDigitPart(fpart)
        expOk  == epos = 0 \/ IsDigitPart(es.body)
    IN  IF mantOk /\ expOk
        THEN [ok  |-> TRUE,
              val |-> Normal(sign * DigitsValue(ipart \o fpart, 0),
                             (IF epos = 0 THEN 0 ELSE es.sign * DigitsValue(es.body, 0))
                               - DigitCount(fpart))]
        ELSE NotAFloat

\* float(s) on a string: [ok, val], ok = FALSE standing for ValueError.
\* Surrounding whitespace is ignored; "nan", "inf" and "infinity" are
\* accepted in any case, with a sign.
float(s) ==
    LET sg    == Signed(strip(s))
        lower == [k \in DOMAIN sg.body |-> LowerChar(sg.body[k])]
    IN  IF lower = <<"n", "a", "n">> THEN [ok |-> TRUE, val |-> FloatNaN]
        ELSE IF lower = <<"i", "n", "f">>
                \/ lower = <<"i", "n", "f", "i", "n", "i", "t", "y">>
             THEN [ok |-> TRUE, val |-> FloatInf(sg.sign)]
        ELSE ParseDecimal(sg.sign, sg.body)

-----------------------------------------------------------------------------
(* process_author_ids *)

\* A plausible slip: truncation to 3 decimals instead of rounding.
truncate3(x) == IF x.nan THEN NaN ELSE Num((x.v \div 100) * 100)

\* np.round(x, 3): to the nearest multiple of 0.001, a tie going to the even
\* multiple; nan stays nan.
np_round3(x) ==
    IF x.nan THEN NaN
    ELSE LET q == x.v \div 100
             r == x.v % 100
         IN  IF r < 50 THEN Num(q * 100)
             ELSE IF r > 50 THEN Num((q + 1) * 100)
             ELSE IF q % 2 = 0 THEN Num(q * 100) ELSE Num((q + 1) * 100)

\* A plausible slip: the best of the three scores is attached, not the
\* abstract's.
BestScore(r) ==
    LET S == {s \in {r.Score_Abs, r.Score_Author, r.Score_Index} : ~s.nan}
    IN  IF S = {} THEN NaN
        ELSE CHOOSE s \in S : \A u \in S : u.v <= s.v

\* row['Score_Abs'] of line 142.
RowScore(r) == r.Score_Abs

RECURSIVE ExplodeStoppingAtBadToken(_, _)
\* A plausible slip: break instead of continue on ValueError.
ExplodeStoppingAtBadToken(ids, score) ==
    IF ids = <<>> THEN <<>>
    ELSE LET f == float(strip(Head(ids)))
         IN  IF f.ok
             THEN <<[AuthID |-> f.val, Score |-> score]>>
                    \o ExplodeStoppingAtBadToken(Tail(ids), score)
             ELSE <<>>

RECURSIVE ExplodeTokens(_, _)
\* The inner loop of lines 140-144 over the tokens: one entry per token that
\* float() accepts; ValueError skips the token.
ExplodeTokens(ids, score) ==
    IF ids = <<>> THEN <<>>
    ELSE LET f == float(strip(Head(ids)))
         IN  IF f.ok
             THEN <<[AuthID |-> f.val, Score |-> score]>> \o ExplodeTokens(Tail(ids), score)
             ELSE ExplodeTokens(Tail(ids), score)

\* Lines 138-144 for one row of results_df: the entries it appends.
ExplodeOne(r) ==
    IF notna(r.IDs)
    THEN ExplodeTokens(split(r.IDs.s, ";"), np_round3(RowScore(r)))
    ELSE <<>>

\* One iteration of the iterrows loop of line 137.
ExplodeRow ==
    /\ pc = "explode"
    /\ row < Len(similarity_results.rows)
    /\ author_scores' = author_scores \o ExplodeOne(similarity_results.rows[row + 1])
    /\ row' = row + 1
    /\ UNCHANGED <<pc, target_abstract, disk, scopus_data, futa_authors, i, results,
                   similarity_results, session_state, metrics, top_20>>

RECURSIVE ExplodeAll(_)
\* The whole loop of lines 137-144 over a frame's rows.
ExplodeAll(rows) ==
    IF rows = <<>> THEN <<>> ELSE ExplodeOne(Head(rows)) \o ExplodeAll(Tail(rows))

\* Equality of two floats as numbers: nan equals nothing.
FloatEq(a, b) == a.kind # "nan" /\ b.kind # "nan" /\ a = b

\* Equality of two join keys in DataFrame.merge: equal numbers, and also two
\* missing keys (pandas matches null keys with each other).
KeyEq(a, b) == IF a.kind = "nan" \/ b.kind = "nan" THEN a.kind = b.kind ELSE a = b

RECURSIVE MatchesOf(_, _)
\* The roster rows that join one left row, in roster order.
MatchesOf(l, right) ==
    IF right = <<>> THEN <<>>
    ELSE IF KeyEq(l.AuthID, Head(right).AuthID)
         THEN <<[AuthID |-> l.AuthID, Score |-> l.Score, Name |-> Head(right).Name]>>
                \o MatchesOf(l, Tail(right))
         ELSE MatchesOf(l, Tail(right))

RECURSIVE JoinRows(_, _)
JoinRows(left, right) ==
    IF left = <<>> THEN <<>>
    ELSE MatchesOf(Head(left), right) \o JoinRows(Tail(left), right)

\* author_scores_df.merge(futa_authors, how='inner', on='Auth-ID'): one row
\* per pair of a left and a right row with matching keys, in the order of the
\* left rows, under a fresh RangeIndex.
merge(left, right) ==
    LET joined == JoinRows(left, right)
    IN  [k \in DOMAIN joined |->
            [AuthID |-> joined[k].AuthID, Score |-> joined[k].Score,
             Name |-> joined[k].Name, index |-> k - 1]]

RECURSIVE PermSeqs(_)
\* Every arrangement of a set of rows.
PermSeqs(S) ==
    IF S = {} THEN {<<>>}
    ELSE UNION {{<<x>> \o p : p \in PermSeqs(S \ {x})} : x \in S}

RECURSIVE Descending(_)
\* Every arrangement of a set of rows with numeric scores in which the scores
\* never increase.
Descending(S) ==
    IF S = {} THEN {<<>>}
    ELSE LET top == {r \in S : \A u \in S : u.Score.v <= r.Score.v}
         IN  {p \o q : p \in PermSeqs(top), q \in Descending(S \ top)}

\* merged_df.sort_values('Score', ascending=False): kind is left at its
\* default 'quicksort', which pandas documents as not stable (numpy's
\* introsort, or its vectorised sorting networks where the CPU has them), so
\* the order among equal scores is whatever the build gives; rows with a nan
\* score come last (na_position='last'), in their original order.  The set of
\* frames the call can return.
sort_values(rows) ==
    {p \o SelectSeq(rows, LAMBDA r : r.Score.nan) :
        p \in Descending({rows[k] : k \in {j \in DOMAIN rows : ~rows[j].Score.nan}})}

\* Lines 146-151, then lines 301 and 303 of main: the merge, the sort, and the
\* ranked frame stored as session_state.recommendations.
MergeSort ==
    /\ pc = "explode"
    /\ row = Len(similarity_results.rows)
    /\ \E sorted \in sort_values(merge(author_scores, futa_authors)) :
          session_state' = [session_state EXCEPT !.recommendations = Frame(sorted)]
    /\ pc' = "store"
    /\ UNCHANGED <<target_abstract, disk, scopus_data, futa_authors, i, results,
                   similarity_results, row, author_scores, metrics, top_20>>

\* Line 304: the scan's frame stored as session_state.processed_data; the
\* script goes on to the display.
StoreProcessedData ==
    /\ pc = "store"
    /\ session_state' = [session_state EXCEPT !.processed_data = similarity_results]
    /\ pc' = "display"
    /\ UNCHANGED <<target_abstract, disk, scopus_data, futa_authors, i, results,
                   similarity_results, row, author_scores, metrics, top_20>>

-----------------------------------------------------------------------------
(* main: the display of lines 315-349 *)

TopN == 20

\* A plausible slip: an off-by-one slice.
head_short(rows, n) ==
    SubSeq(rows, 1, IF n - 1 < Len(rows) THEN n - 1 ELSE Len(rows))

\* DataFrame.head(n): the first min(n, length) rows.
head(rows, n) == SubSeq(rows, 1, IF n < Len(rows) THEN n ELSE Len(rows))

\* The numeric values of the rows' Score column (skipna=True).
NumericScores(rows) ==
    LET kept == SelectSeq(rows, LAMBDA r : ~r.Score.nan)
    IN  [k \in DOMAIN kept |-> kept[k].Score.v]

\* Series.mean(): nan for an empty or all-nan column.
mean(rows) ==
    LET xs == NumericScores(rows)
    IN  IF xs = <<>> THEN NaN ELSE Num(SumSeq(xs) \div Len(xs))

\* Series.max(): nan for an empty or all-nan column.
max(rows) ==
    LET xs == NumericScores(rows)
    IN  IF xs = <<>> THEN NaN
        ELSE Num(CHOOSE x \in {xs[k] : k \in DOMAIN xs} :
                    \A k \in DOMAIN xs : xs[k] <= x)

\* f"{x:.3f}": three decimals, "nan" for nan.
Format3(x) ==
    IF x.nan THEN NaN
    ELSE LET q == x.v \div 100
             r == x.v % 100
         IN  IF r < 50 \/ (r = 50 /\ q % 2 = 0) THEN Num(q * 100)
             ELSE Num((q + 1) * 100)

NoMetrics == [shown |-> FALSE, total |-> 0, avg |-> NaN, max |-> NaN, top_avg |-> NaN]

\* Lines 315-349: with recommendations in the session state the four metrics
\* and the top-20 frame are shown, whatever the frame's length.
Display ==
    /\ pc = "display"
    /\ IF session_state.recommendations.none
       THEN /\ metrics' = NoMetrics
            /\ top_20' = None
       ELSE LET recommendations == session_state.recommendations.rows
            IN  /\ metrics' = [shown   |-> TRUE,
                               total   |-> Len(recommendations),
                               avg     |-> Format3(mean(recommendations)),
                               max     |-> Format3(max(recommendations)),
                               top_avg |-> Format3(mean(head(recommendations, TopN)))]
                /\ top_20' = Frame(head(recommendations, TopN))
    /\ pc' = "idle"
    /\ UNCHANGED <<target_abstract, disk, scopus_data, futa_authors, i, results,
                   similarity_results, row, author_scores, session_state>>

-----------------------------------------------------------------------------
(* main: the interactions of one browser session *)

\* The text area is edited: the script reruns with the button not pressed
\* (lines 267-312), so only the display part runs.
EditAbstract(text) ==
    /\ pc = "idle"
    /\ text # target_abstract
    /\ target_abstract' = text
    /\ pc' = "display"
    /\ UNCHANGED <<disk, scopus_data, futa_authors, i, results, similarity_results,
                   row, author_scores, session_state, metrics, top_20>>

\* load_data, lines 61-75: both frames, or (None, None) when a file is
\* missing.
load_data ==
    IF disk.scopus.none \/ disk.futa.none
    THEN [scopus |-> None, futa |-> None]
    ELSE [scopus |-> disk.scopus, futa |-> disk.futa]

\* "Find Recommendations" is pressed (the button exists only under a
\* non-blank abstract, line 275) and both files load: the scan starts.
FindRecommendations ==
    /\ pc = "idle"
    /\ target_abstract # <<>>
    /\ ~load_data.scopus.none /\ ~load_data.futa.none
    /\ scopus_data' = load_data.scopus.rows
    /\ futa_authors' = load_data.futa.rows
    /\ i' = 0
    /\ results' = <<>>
    /\ pc' = "scan"
    /\ UNCHANGED <<target_abstract, disk, similarity_results, row, author_scores,
                   session_state, metrics, top_20>>

\* The button is pressed and load_data returns (None, None): line 292 skips
\* the pipeline.
FindRecommendationsNoFiles ==
    /\ pc = "idle"
    /\ target_abstract # <<>>
    /\ load_data.scopus.none \/ load_data.futa.none
    /\ pc' = "display"
    /\ UNCHANGED <<target_abstract, disk, scopus_data, futa_authors, i, results,
                   similarity_results, row, author_scores, session_state,
                   metrics, top_20>>

\* The text area is edited while the script is still running.  Streamlit
\* asks the running script to stop, and the script stops at its next yield
\* point: the end of the spinner blocks of lines 296-301, or the
\* session-state write it is about to make (line 303 or line 304, each of
\* which first asks whether a stop is pending).  Nothing between two yield
\* points touches the session state, so the run is abandoned where it
\* stands and its local variables are gone; the script then reruns with the
\* new text and the button not pressed, so only the display part runs.
Rerun(text) ==
    /\ pc \in {"scan", "explode", "store"}
    /\ text # target_abstract
    /\ target_abstract' = text
    /\ scopus_data' = <<>>
    /\ futa_authors' = <<>>
    /\ i' = 0
    /\ results' = <<>>
    /\ similarity_results' = None
    /\ row' = 0
    /\ author_scores' = <<>>
    /\ pc' = "display"
    /\ UNCHANGED <<disk, session_state, metrics, top_20>>

-----------------------------------------------------------------------------
(* Inputs *)

\* Query abstracts: content words, stop words only, mixed case.
Queries ==
    {<<"Deep", "learning", "of", "image">>, <<"soil", "erosion">>, <<"the">>}

\* Text cells.
TxtDeep == Str(<<"deep", "learning", "image", "image">>)

TxtSoil == Str(<<"the", "soil", "erosion", "soil">>)

TxtStop == Str(<<"The", "of">>)

TxtBlank == Str(<<>>)

KwDeep == Str(<<"deep", "learning">>)

KwSoil == Str(<<"soil">>)

\* Id cells.
IdExample ==
    Str(<<"1", "2", "3", ";", " ", "4", "5", "6", " ", ";", "a", "b", "c">>)

Id7 == Str(<<"7">>)

Id7and8 == Str(<<"7", ";", "8">>)

IdBadThen8 == Str(<<" ", "x", ";", "8">>)

IdNan == Str(<<"n", "a", "n">>)

Id7Point0 == Str(<<"7", ".", "0", ";">>)

IdEmpty == Str(<<>>)

Record(authors, ids, abstract, author_kw, index_kw) ==
    [Authors |-> authors, IDs |-> ids, Abstract |-> abstract,
     AuthorKeywords |-> author_kw, IndexKeywords |-> index_kw]

\* Corpus records: every field present, missing, blank or stop words only.
SampleRecords ==
    {Record("Ade", Id7, TxtDeep, KwDeep, KwSoil),
     Record("Bola", Id7and8, NA, KwDeep, NA),
     Record("Chi", IdExample, TxtStop, TxtBlank, KwSoil),
     Record("Dayo", NA, TxtSoil, NA, TxtBlank),
     Record("Ade", IdBadThen8, TxtBlank, TxtStop, KwDeep),
     Record("Efe", IdEmpty, NA, NA, NA),
     Record("Femi", Id7Point0, TxtSoil, KwSoil, TxtStop),
     Record("Bola", Id7, TxtDeep, NA, KwDeep)}

F(n) == Normal(n, 0)

Entry(id, name) == [AuthID |-> id, Name |-> name]

\* Rosters: empty; distinct ids; a repeated id, an id no corpus record has
\* and an entry whose Auth-ID cell is empty.
SampleRosters ==
    {<<>>,
     <<Entry(F(7), "Ade"), Entry(F(8), "Bola"), Entry(F(123), "Chi")>>,
     <<Entry(F(7), "Ade"), Entry(F(7), "Ade A."), Entry(FloatNaN, "Dayo"),
       Entry(F(456), "Efe"), Entry(F(99), "Femi")>>}

ScoredRow(authors, ids, s_abs, s_aut, s_ind) ==
    [Authors |-> authors, IDs |-> ids, Score_Abs |-> s_abs,
     Score_Author |-> s_aut, Score_Index |-> s_ind]

\* Rows of a results frame handed to process_author_ids.
SampleScoreRows ==
    {ScoredRow("Ade", Id7, Num(93456), NaN, NaN),
     ScoredRow("Bola", Id7and8, Num(93500), Num(ScoreOne), NaN),
     ScoredRow("Chi", IdExample, Num(93456), NaN, Num(50000)),
     ScoredRow("Dayo", IdBadThen8, Num(250), Num(0), NaN),
     ScoredRow("Efe", IdNan, Num(350), NaN, NaN),
     ScoredRow("Femi", Id7Point0, Num(0), Num(70711), Num(0)),
     ScoredRow("Efe", NA, Num(93456), NaN, NaN),
     ScoredRow("Ade", IdEmpty, Num(50000), NaN, NaN),
     ScoredRow("Bola", Id7and8, NaN, Num(ScoreOne), Num(ScoreOne)),
     ScoredRow("Chi", Id7, Num(ScoreOne), NaN, NaN)}

\* Sequences over S of length at most n.
SeqsUpTo(S, n) == UNION {[1 .. k -> S] : k \in 0 .. n}

\* What load_data can find on disk in the session model: records with one
\* identifier each, and a roster that is empty or has distinct ids.
UiRecords ==
    {Record("Ade", Id7, TxtDeep, KwDeep, KwSoil),
     Record("Bola", IdBadThen8, NA, KwDeep, NA),
     Record("Chi", IdExample, TxtSoil, TxtBlank, KwSoil)}

UiRosters ==
    {<<>>, <<Entry(F(7), "Ade"), Entry(F(8), "Bola"), Entry(F(123), "Chi")>>}

Disks ==
    [scopus : {None} \cup {Frame(c) : c \in SeqsUpTo(UiRecords, MaxCorpus)},
     futa   : {None} \cup {Frame(r) : r \in UiRosters}]

\* A ranked frame of a + b + c rows: a with score 0.9, b with 0.5, c with 0.
RankedRows(a, b, c) ==
    [k \in 1 .. a + b + c |->
        [AuthID |-> F(7),
         Score |-> IF k <= a THEN Num(90000) ELSE IF k <= a + b THEN Num(50000) ELSE Num(0),
         Name |-> "Ade",
         index |-> k - 1]]

RankedFrames ==
    {Frame(RankedRows(a, b, c)) :
        a \in 0 .. MaxRecs, b \in {0, 1, 2, MaxRecs - 1}, c \in 0 .. 2}

-----------------------------------------------------------------------------
(* Specifications *)

Idle ==
    /\ scopus_data = <<>>
    /\ futa_authors = <<>>
    /\ i = 0
    /\ results = <<>>
    /\ similarity_results = None
    /\ row = 0
    /\ author_scores = <<>>
    /\ metrics = NoMetrics
    /\ top_20 = None

\* A browser session: lines 55-59 leave both session values None.
Init ==
    /\ pc = "idle"
    /\ target_abstract = <<>>
    /\ disk \in Disks
    /\ session_state = [recommendations |-> None, processed_data |-> None]
    /\ Idle

Next ==
    \/ \E text \in Queries \cup {<<>>} : EditAbstract(text)
    \/ FindRecommendations
    \/ FindRecommendationsNoFiles
    \/ ScanRecord
    \/ ScanReturn
    \/ ExplodeRow
    \/ MergeSort
    \/ StoreProcessedData
    \/ \E text \in Queries \cup {<<>>} : Rerun(text)
    \/ Display

Spec == Init /\ [][Next]_vars

\* calculate_similarity on any query main can pass (line 275: not blank) and
\* any corpus.
InitScan ==
    /\ pc = "scan"
    /\ target_abstract \in Queries
    /\ scopus_data \in SeqsUpTo(SampleRecords, MaxCorpus)
    /\ disk = [scopus |-> None, futa |-> None]
    /\ session_state = [recommendations |-> None, processed_data |-> None]
    /\ futa_authors = <<>>
    /\ i = 0
    /\ results = <<>>
    /\ similarity_results = None
    /\ row = 0
    /\ author_scores = <<>>
    /\ metrics = NoMetrics
    /\ top_20 = None

NextScan == ScanRecord \/ ScanReturn

SpecScan == InitScan /\ [][NextScan]_vars

\* process_author_ids on any results frame and roster.
InitRank ==
    /\ pc = "explode"
    /\ target_abstract = <<>>
    /\ similarity_results \in {Frame(rs) : rs \in SeqsUpTo(SampleScoreRows, MaxRows)}
    /\ futa_authors \in SampleRosters
    /\ disk = [scopus |-> None, futa |-> None]
    /\ session_state = [recommendations |-> None, processed_data |-> None]
    /\ scopus_data = <<>>
    /\ i = 0
    /\ results = <<>>
    /\ row = 0
    /\ author_scores = <<>>
    /\ metrics = NoMetrics
    /\ top_20 = None

NextRank == ExplodeRow \/ MergeSort

SpecRank == InitRank /\ [][NextRank]_vars

\* The display on any ranked frame the session state can hold.
InitReport ==
    /\ pc = "display"
    /\ target_abstract = <<>>
    /\ session_state \in [recommendations : RankedFrames \cup {None},
                          processed_data : {None}]
    /\ disk = [scopus |-> None, futa |-> None]
    /\ Idle

NextReport == Display

SpecReport == InitReport /\ [][NextReport]_vars

-----------------------------------------------------------------------------
(* Properties of calculate_similarity (under SpecScan) *)

\* C1: the scan is length-preserving and order-preserving.  After i
\* iterations the list holds i rows, the k-th row carries the Authors and IDs
\* of the k-th corpus record, and the returned frame has one row per corpus
\* record, whatever texts are missing or cannot be vectorized.
C1_ScanPreservesLengthAndOrder ==
    /\ pc = "scan" => Len(results) = i
    /\ \A k \in DOMAIN results :
          /\ k <= Len(scopus_data)
          /\ results[k].Authors = scopus_data[k].Authors
          /\ results[k].IDs = scopus_data[k].IDs
    /\ ~similarity_results.none =>
          /\ Len(similarity_results.rows) = Len(scopus_data)
          /\ \A k \in DOMAIN scopus_data :
                /\ similarity_results.rows[k].Authors = scopus_data[k].Authors
                /\ similarity_results.rows[k].IDs = scopus_data[k].IDs

\* C1 witness: a returned frame for two records by different authors, the
\* first with a missing abstract and the second with a missing id cell or
\* keyword cell.
C1_Witness ==
    /\ pc = "explode"
    /\ Len(scopus_data) = 2
    /\ Len(similarity_results.rows) = 2
    /\ scopus_data[1].Abstract.na
    /\ scopus_data[1].Authors # scopus_data[2].Authors
    /\ scopus_data[1].IDs # scopus_data[2].IDs

\* A text cell that gives no score: missing, empty, or one on which the
\* vectorizer raises for this query.
Unscorable(cell, target) ==
    \/ cell.na
    \/ cell.s = <<>>
    \/ fit_transform(NewVectorizer, cell, Str(target)).raised

\* C2: for each of the three text fields, a candidate text that is absent,
\* empty or makes vectorization fail gets the undefined score (nan), never a
\* number such as 0.
C2_UnscorableIsUndefined ==
    \A k \in DOMAIN results :
        /\ Unscorable(scopus_data[k].Abstract, target_abstract)
              => results[k].Score_Abs.nan
        /\ Unscorable(scopus_data[k].AuthorKeywords, target_abstract)
              => results[k].Score_Author.nan
        /\ Unscorable(scopus_data[k].IndexKeywords, target_abstract)
              => results[k].Score_Index.nan

\* Cells a field could have held instead.
AlternativeCells == {NA, TxtBlank, TxtStop, TxtDeep, KwSoil}

\* C3: the three scores of a record are independent and no record's failure
\* touches another record.  Replacing one field of a scanned record by any
\* other cell (missing, blank, stop words only, or scorable) leaves the
\* other two scores of its row as they are; every row is what the record
\* alone gives, and a row is appended for every record.
C3_ScoresIndependent ==
    /\ pc = "scan" => Len(results) = i
    /\ \A k \in DOMAIN results :
          LET rec == scopus_data[k]
              r   == results[k]
          IN  /\ r = ScoreRow(rec, target_abstract)
              /\ \A a \in AlternativeCells :
                    LET r1 == ScoreRow([rec EXCEPT !.Abstract = a], target_abstract)
                        r2 == ScoreRow([rec EXCEPT !.AuthorKeywords = a], target_abstract)
                        r3 == ScoreRow([rec EXCEPT !.IndexKeywords = a], target_abstract)
                    IN  /\ r1.Score_Author = r.Score_Author
                        /\ r1.Score_Index = r.Score_Index
                        /\ r2.Score_Abs = r.Score_Abs
                        /\ r2.Score_Index = r.Score_Index
                        /\ r3.Score_Abs = r.Score_Abs
                        /\ r3.Score_Author = r.Score_Author

\* C3 witness: a scanned corpus of two records in which one record's abstract
\* failed and a keyword field was missing, while its other keyword field and
\* the other record's abstract were scored above 0.
C3_Witness ==
    /\ pc = "explode"
    /\ Len(results) = 2
    /\ \E k \in DOMAIN results : \E j \in DOMAIN results :
          /\ k # j
          /\ scopus_data[k].Abstract.na
          /\ scopus_data[k].IndexKeywords.na
          /\ ~results[k].Score_Author.nan /\ results[k].Score_Author.v > 0
          /\ results[k].Score_Index.nan
          /\ results[j].Score_Abs.v > 0

-----------------------------------------------------------------------------
(* Properties of process_author_ids (under SpecRank) *)

\* The places that bound the pieces of an id string: before the first
\* character, after the last, and every semicolon.
Cuts(s) == {0, Len(s) + 1} \cup {p \in DOMAIN s : s[p] = ";"}

\* The pieces, as pairs of neighbouring cuts.
Pieces(s) ==
    {c \in Cuts(s) \X Cuts(s) :
        c[1] < c[2] /\ ~\E p \in Cuts(s) : c[1] < p /\ p < c[2]}

PieceText(s, c) == SubSeq(s, c[1] + 1, c[2] - 1)

\* The pieces that, trimmed, are read as a number.
NumericPieces(s) == {c \in Pieces(s) : float(strip(PieceText(s, c))).ok}

\* The identifiers of an id cell: its numeric pieces from left to right.
IdsOf(cell) ==
    IF cell.na THEN <<>>
    ELSE LET good == NumericPieces(cell.s)
             nth(k) == CHOOSE c \in good :
                          Cardinality({d \in good : d[1] < c[1]}) = k - 1
         IN  [k \in 1 .. Cardinality(good) |-> float(strip(PieceText(cell.s, nth(k)))).val]

RECURSIVE IdsUpTo(_, _)
\* The identifiers of the first n rows of a frame, row after row.
IdsUpTo(rows, n) ==
    IF n = 0 THEN <<>> ELSE IdsUpTo(rows, n - 1) \o IdsOf(rows[n].IDs)

\* C4: explode emits exactly one IdentifiedScore per semicolon-separated
\* token that, trimmed, parses as a number, in token order; other tokens are
\* dropped without affecting the rest, a missing or empty id cell emits
\* nothing, and "123; 456 ;abc" yields exactly 123 and 456.
C4_ExplodeEmitsNumericTokens ==
    /\ pc = "explode" =>
          [k \in DOMAIN author_scores |-> author_scores[k].AuthID]
             = IdsUpTo(similarity_results.rows, row)
    /\ IdsOf(IdExample) = <<F(123), F(456)>>
    /\ IdsOf(NA) = <<>> /\ IdsOf(IdEmpty) = <<>>
    /\ \A r \in SampleScoreRows :
          (r.IDs.na \/ r.IDs.s = <<>>) => ExplodeOne(r) = <<>>

\* C4 witness: the row "123; 456 ;abc" followed by a row whose first token
\* is not a number, both exploded: three entries, for 123, 456 and 8.
C4_Witness ==
    /\ pc = "explode"
    /\ row = 2
    /\ similarity_results.rows[1].IDs = IdExample
    /\ similarity_results.rows[2].IDs = IdBadThen8
    /\ [k \in DOMAIN author_scores |-> author_scores[k].AuthID]
          = <<F(123), F(456), F(8)>>

\* Number of places of sequence s that satisfy P.
CountIn(s, P(_)) == Cardinality({k \in DOMAIN s : P(s[k])})

\* C5: the join is an inner join on the numeric identifier.  Every
\* recommendation's identifier is equal, as a number, to an exploded score's
\* and to a roster entry's; the result holds exactly one row per pair of an
\* exploded score and a roster entry with equal identifiers, and nothing for
\* an identifier that only one side has.
C5_InnerJoinOnEqualIds ==
    (pc = "store" /\ ~session_state.recommendations.none) =>
        LET recs == session_state.recommendations.rows
            pairs == {q \in (DOMAIN author_scores) \X (DOMAIN futa_authors) :
                        FloatEq(author_scores[q[1]].AuthID, futa_authors[q[2]].AuthID)}
        IN  /\ \A k \in DOMAIN recs :
                  /\ \E j \in DOMAIN author_scores :
                        FloatEq(author_scores[j].AuthID, recs[k].AuthID)
                  /\ \E j \in DOMAIN futa_authors :
                        FloatEq(futa_authors[j].AuthID, recs[k].AuthID)
            /\ Len(recs) = Cardinality(pairs)
            /\ \A q \in pairs :
                  LET same(r) == /\ r.AuthID = author_scores[q[1]].AuthID
                                 /\ r.Score = author_scores[q[1]].Score
                                 /\ r.Name = futa_authors[q[2]].Name
                  IN  CountIn(recs, same)
                        = Cardinality({p \in pairs :
                              /\ author_scores[p[1]] = author_scores[q[1]]
                              /\ futa_authors[p[2]].Name = futa_authors[q[2]].Name})

\* C6: the returned table is sorted by score, descending, and rows with equal
\* scores keep the order they had in the joined frame (whose positions the
\* index column records).
C6_SortedDescendingAndStable ==
    (pc = "store" /\ ~session_state.recommendations.none) =>
        LET recs == session_state.recommendations.rows
        IN  \A k \in DOMAIN recs : \A j \in DOMAIN recs :
                (k < j /\ ~recs[k].Score.nan /\ ~recs[j].Score.nan) =>
                    /\ recs[k].Score.v >= recs[j].Score.v
                    /\ recs[k].Score.v = recs[j].Score.v
                          => recs[k].index < recs[j].index

\* C7: with an empty ranked table the report signals NoData: it shows no
\* mean, max or top-20 mean, and no displayed statistic is ever nan.
C7_EmptyTableSignalsNoData ==
    /\ (/\ pc = "idle"
        /\ ~session_state.recommendations.none
        /\ session_state.recommendations.rows = <<>>) => ~metrics.shown
    /\ metrics.shown =>
          ~metrics.avg.nan /\ ~metrics.max.nan /\ ~metrics.top_avg.nan

\* Scores a keyword column could hold instead.
KeywordScores == {NaN, Num(0), Num(ScoreOne)}

\* The frames that agree with rows on Authors, IDs and Score_Abs and differ
\* in the two keyword scores of one row, or of every row.
KeywordVariants(rows) ==
    {[k \in DOMAIN rows |->
         [rows[k] EXCEPT !.Score_Author = a, !.Score_Index = b]] :
        a \in KeywordScores, b \in KeywordScores}
    \cup
    {[rows EXCEPT ![n] = [@ EXCEPT !.Score_Author = a, !.Score_Index = b]] :
        n \in DOMAIN rows, a \in KeywordScores, b \in KeywordScores}

\* recs is merged in some order: the index column names each row's place.
IsReordering(recs, merged) ==
    /\ Len(recs) = Len(merged)
    /\ \A k \in DOMAIN recs :
          /\ recs[k].index + 1 \in DOMAIN merged
          /\ recs[k] = merged[recs[k].index + 1]
    /\ \A k \in DOMAIN recs : \A j \in DOMAIN recs :
          k # j => recs[k].index # recs[j].index

\* C8: the ranked table depends only on IDs and Score_Abs.  Every frame
\* that differs from the processed one only in keyword scores explodes into
\* the same list of entries, and the returned table is a reordering of the
\* merge of that list with the roster, so no keyword score reaches it.
C8_RankingIgnoresKeywordScores ==
    /\ pc = "explode" =>
          \A v \in KeywordVariants(similarity_results.rows) :
              author_scores = ExplodeAll(SubSeq(v, 1, row))
    /\ (pc = "store" /\ ~session_state.recommendations.none) =>
          IsReordering(session_state.recommendations.rows,
                       merge(author_scores, futa_authors))

\* C8 witness: a returned, non-empty table for a frame with a row whose
\* keyword score is above its abstract score.
C8_Witness ==
    /\ pc = "store"
    /\ session_state.recommendations.rows # <<>>
    /\ \E k \in DOMAIN similarity_results.rows :
          LET r == similarity_results.rows[k]
          IN  /\ ~r.Score_Author.nan /\ ~r.Score_Abs.nan
              /\ r.Score_Author.v > r.Score_Abs.v
              /\ \E j \in DOMAIN session_state.recommendations.rows :
                    session_state.recommendations.rows[j].Score = np_round3(r.Score_Abs)

\* r is x rounded to 3 decimals, ties to the even neighbour; nan for nan.
IsRounded3(x, r) ==
    IF x.nan THEN r.nan
    ELSE /\ ~r.nan
         /\ r.v % 100 = 0
         /\ r.v - x.v <= 50 /\ x.v - r.v <= 50
         /\ (r.v - x.v = 50 \/ x.v - r.v = 50) => (r.v \div 100) % 2 = 0

\* C9: every exploded entry carries its row's Score_Abs rounded to 3
\* decimals under one convention (0.93456 gives 0.935), the same value for
\* every token of the row, and the join and the sort keep the rounded
\* values as they are.
C9_ScoreRoundedBeforeJoin ==
    LET rows == similarity_results.rows
    IN  /\ pc = "explode" =>
              /\ Len(author_scores) = Len(IdsUpTo(rows, row))
              /\ \A n \in 1 .. row :
                    \A k \in Len(IdsUpTo(rows, n - 1)) + 1 .. Len(IdsUpTo(rows, n)) :
                       /\ IsRounded3(rows[n].Score_Abs, author_scores[k].Score)
                       /\ rows[n].Score_Abs = Num(93456)
                             => author_scores[k].Score = Num(93500)
        /\ (pc = "store" /\ ~session_state.recommendations.none) =>
              \A j \in DOMAIN session_state.recommendations.rows :
                 \E k \in DOMAIN author_scores :
                    /\ author_scores[k].Score = session_state.recommendations.rows[j].Score
                    /\ author_scores[k].AuthID = session_state.recommendations.rows[j].AuthID

\* C9 witness: the row "123; 456 ;abc" with score 0.93456 exploded into two
\* entries of 0.935, a second row with a tie (0.0025), and a joined table.
C9_Witness ==
    /\ pc = "store"
    /\ Len(similarity_results.rows) = 2
    /\ similarity_results.rows[1].IDs = IdExample
    /\ similarity_results.rows[1].Score_Abs = Num(93456)
    /\ similarity_results.rows[2].Score_Abs = Num(250)
    /\ author_scores = <<[AuthID |-> F(123), Score |-> Num(93500)],
                         [AuthID |-> F(456), Score |-> Num(93500)],
                         [AuthID |-> F(8), Score |-> Num(200)]>>
    /\ Len(session_state.recommendations.rows) = 2

-----------------------------------------------------------------------------
(* Properties of the display (under SpecReport) *)

\* C10: the top-20 view is exactly the first min(20, length) rows of the
\* ranked table, in the same order, and no row outside it has a higher score
\* than a row inside it.
C10_TopIsPrefix ==
    (pc = "idle" /\ ~session_state.recommendations.none) =>
        LET recs == session_state.recommendations.rows
            n    == IF Len(recs) < 20 THEN Len(recs) ELSE 20
        IN  /\ ~top_20.none
            /\ Len(top_20.rows) = n
            /\ \A k \in 1 .. n : top_20.rows[k] = recs[k]
            /\ \A k \in 1 .. n : \A j \in n + 1 .. Len(recs) :
                  recs[k].Score.v >= recs[j].Score.v

\* C10 witness: a displayed table of more than 20 rows whose 20th and 21st
\* rows differ in score.
C10_Witness ==
    /\ pc = "idle"
    /\ Len(session_state.recommendations.rows) > 20
    /\ Len(top_20.rows) = 20
    /\ session_state.recommendations.rows[20].Score
          # session_state.recommendations.rows[21].Score
    /\ session_state.recommendations.rows[1].Score
          # session_state.recommendations.rows[20].Score

-----------------------------------------------------------------------------
(* Properties of the session state (under Spec) *)

\* The frame calculate_similarity returns for a corpus and a query.
ScanOf(corpus, target) ==
    [k \in DOMAIN corpus |-> ScoreRow(corpus[k], target)]

\* The two session values come from one run on the files on disk: the
\* processed data is the scan of the corpus under some query, and the
\* recommendations are a ranking of that scan's rows joined with the roster.
FromOneRun(recommendations, processed_data) ==
    /\ ~disk.scopus.none
    /\ ~disk.futa.none
    /\ \E target \in Queries :
          processed_data.rows = ScanOf(disk.scopus.rows, target)
    /\ IsReordering(recommendations.rows,
                    merge(ExplodeAll(processed_data.rows), disk.futa.rows))

\* C11: whenever the script is at rest between interactions,
\* session_state.recommendations and session_state.processed_data are either
\* both unset or both set by the same pipeline run; a run that did not
\* complete has changed neither.
C11_SessionPairFromOneRun ==
    pc = "idle" =>
        \/ /\ session_state.recommendations.none
           /\ session_state.processed_data.none
        \/ /\ ~session_state.recommendations.none
           /\ ~session_state.processed_data.none
           /\ FromOneRun(session_state.recommendations,
                         session_state.processed_data)

=============================================================================
